---- MODULE Spec2Model ----
(***************************************************************************)
(* Model of rainbow_tag/main.c: a bouncing, animated sprite that is drawn  *)
(* from one of four pre-rotated sheets by an RGB565 integer scaler.        *)
(*                                                                         *)
(* Number representation                                                   *)
(*   scale   : the C float, in halves (0.5f = 1, 2.0f = 4, 6.0f = 12).     *)
(*             Every SCALE_OPTIONS entry is a multiple of 0.5 and is exact *)
(*             in binary floating point.                                   *)
(*   x,y,vx,vy: the C floats, in tenths of a pixel (1.8f = 18).  The model *)
(*             adds exactly; the C float sum is rounded to 24 bits, which  *)
(*             moves a position by less than 1/1000 pixel and changes no   *)
(*             comparison against the integer screen edges that the model  *)
(*             reports on.                                                 *)
(*   Uint32  : the millisecond counters stay below MaxMs + 3 * 41, far     *)
(*             from 2^32, so no operation on them wraps.                   *)
(***************************************************************************)
EXTENDS Integers, Sequences, FiniteSets, TLC

\* a      : the App structure (the session state)
\* result : the SDL_AppResult of the last callback; the run loop goes on
\*          while it is SDL_APP_CONTINUE
\* loc    : frame locator harness, the last get_src_for_frame_rot call
\* blt    : blit harness, one call of blit_colorkey_scale_fast_RGB565
\* rotb   : rotation harness, a surface taken through rotate90_cw
VARIABLES a, result, loc, blt, rotb

vars == <<a, result, loc, blt, rotb>>

(***************************************************************************)
(* Program constants                                                       *)
(***************************************************************************)
SPRITE_COLS == 8
SPRITE_ROWS == 4
SPRITE_FPS == 24
KEY_R == 32
KEY_G == 32
KEY_B == 32
\* { 0.5f, 1.0f, 1.5f, 2.0f, 2.5f, 3.0f, 3.5f, 4.0f, 5.0f, 6.0f } in halves
SCALE_OPTIONS == <<1, 2, 3, 4, 5, 6, 7, 8, 10, 12>>
SCALE_COUNT == Len(SCALE_OPTIONS)
\* 2.0f in halves
DEFAULT_SCALE == 4
\* 1.8f and 1.4f in tenths of a pixel
START_SPEED_X == 18
START_SPEED_Y == 14
DT_SLEEP_MS == 16

(***************************************************************************)
(* Bounds of the model                                                     *)
(***************************************************************************)
\* the window surface the platform hands out is ScreenW x ScreenH
ScreenW == 8
ScreenH == 8
\* SDL_GetTicks() is followed up to MaxMs milliseconds after SDL_AppInit
MaxMs == 48
\* sheets of the frame locator: SPRITE_COLS..MaxTexW by SPRITE_ROWS..MaxTexH
MaxTexW == 17
MaxTexH == 8
\* sheets that the grid divides exactly: SPRITE_COLS * (1..MaxFw) wide,
\* SPRITE_ROWS * (1..MaxFh) high
MaxFw == 3
MaxFh == 3
\* surfaces of the rotation harness: 1..MaxRotW by 1..MaxRotH pixels
MaxRotW == 3
MaxRotH == 2
\* source surface of the blit harness: BlitSrcW x BlitSrcH pixels
BlitSrcW == 3
BlitSrcH == 3
\* the animation harness lets up to MaxSteps nominal steps (and a part of
\* one) go by between two ticks
MaxSteps == 33

(***************************************************************************)
(* C arithmetic                                                            *)
(***************************************************************************)
\* C integer division and float-to-int conversion truncate toward zero
TruncDiv(n, d) == IF n >= 0 THEN n \div d ELSE -((-n) \div d)

\* (int)f for a float f held in tenths
IntOfTenths(t) == TruncDiv(t, 10)

\* (int)(n * scale + 0.5f) for an int n >= 0 and a scale held in halves
RoundScaled(n, s) == TruncDiv(n * s + 1, 2)

(***************************************************************************)
(* Frame locator                                                           *)
(***************************************************************************)
grid_for_rot(app, r0) ==
    LET r == r0 % 4
    IN  IF r = 0 \/ r = 2
        THEN [cols |-> app.cols, rows |-> app.rows, fw |-> app.fw, fh |-> app.fh]
        ELSE [cols |-> app.rows, rows |-> app.cols, fw |-> app.fh, fh |-> app.fw]

\* a quarter turn that takes its column range from C where the code takes R
map_cell_wrong_extent(app, r0, base_r, base_c) ==
    LET C == app.cols
        R == app.rows
        r == r0 % 4
    IN  IF r = 0 THEN [r |-> base_r, c |-> base_c]
        ELSE IF r = 1 THEN [r |-> base_c, c |-> C - 1 - base_r]
        ELSE IF r = 2 THEN [r |-> R - 1 - base_r, c |-> C - 1 - base_c]
        ELSE [r |-> C - 1 - base_c, c |-> base_r]

map_cell_for_rot(app, r0, base_r, base_c) ==
    LET C == app.cols
        R == app.rows
        r == r0 % 4
    IN  IF r = 0 THEN [r |-> base_r, c |-> base_c]
        ELSE IF r = 1 THEN [r |-> base_c, c |-> R - 1 - base_r]
        ELSE IF r = 2 THEN [r |-> R - 1 - base_r, c |-> C - 1 - base_c]
        ELSE [r |-> C - 1 - base_c, c |-> base_r]

\* a locator that gives the last column and row the nominal frame size
get_src_no_remainder(app, idx, r0) ==
    LET sheet == app.sheet_rot[r0 + 1]
        g == grid_for_rot(app, r0)
        fw_i == TruncDiv(sheet.w, g.cols)
        fh_i == TruncDiv(sheet.h, g.rows)
        cell == map_cell_for_rot(app, r0, TruncDiv(idx, app.cols), idx % app.cols)
    IN  [x |-> cell.c * fw_i, y |-> cell.r * fh_i, w |-> fw_i, h |-> fh_i]

\* a locator that divides the rotated sheet by the base grid
get_src_base_grid(app, idx, r0) ==
    LET sheet == app.sheet_rot[r0 + 1]
        fw_i == TruncDiv(sheet.w, app.cols)
        fh_i == TruncDiv(sheet.h, app.rows)
        cell == map_cell_for_rot(app, r0, TruncDiv(idx, app.cols), idx % app.cols)
        x0 == cell.c * fw_i
        y0 == cell.r * fh_i
        w0 == IF cell.c = app.cols - 1 THEN sheet.w - x0 ELSE fw_i
        h0 == IF cell.r = app.rows - 1 THEN sheet.h - y0 ELSE fh_i
        w2 == IF x0 + w0 > sheet.w THEN sheet.w - x0 ELSE w0
        h2 == IF y0 + h0 > sheet.h THEN sheet.h - y0 ELSE h0
    IN  [x |-> x0, y |-> y0, w |-> w2, h |-> h2]

\* a locator that takes the row for the column of the base cell
get_src_rowcol_swapped(app, idx, r0) ==
    LET sheet == app.sheet_rot[r0 + 1]
        g == grid_for_rot(app, r0)
        fw_i == TruncDiv(sheet.w, g.cols)
        fh_i == TruncDiv(sheet.h, g.rows)
        cell == map_cell_for_rot(app, r0, idx % app.rows, TruncDiv(idx, app.rows))
        x0 == cell.c * fw_i
        y0 == cell.r * fh_i
        w0 == IF cell.c = g.cols - 1 THEN sheet.w - x0 ELSE fw_i
        h0 == IF cell.r = g.rows - 1 THEN sheet.h - y0 ELSE fh_i
    IN  [x |-> x0, y |-> y0, w |-> w0, h |-> h0]

get_src_for_frame_rot(app, idx, r0) ==
    LET sheet == app.sheet_rot[r0 + 1]
        g == grid_for_rot(app, r0)
        fw_i == TruncDiv(sheet.w, g.cols)
        fh_i == TruncDiv(sheet.h, g.rows)
        base_c == idx % app.cols
        base_r == TruncDiv(idx, app.cols)
        cell == map_cell_for_rot(app, r0, base_r, base_c)
        x0 == cell.c * fw_i
        y0 == cell.r * fh_i
        w0 == IF cell.c = g.cols - 1 THEN sheet.w - x0 ELSE fw_i
        h0 == IF cell.r = g.rows - 1 THEN sheet.h - y0 ELSE fh_i
        x1 == IF x0 < 0 THEN 0 ELSE x0
        y1 == IF y0 < 0 THEN 0 ELSE y0
        w1 == IF w0 < 0 THEN 0 ELSE w0
        h1 == IF h0 < 0 THEN 0 ELSE h0
        w2 == IF x1 + w1 > sheet.w THEN sheet.w - x1 ELSE w1
        h2 == IF y1 + h1 > sheet.h THEN sheet.h - y1 ELSE h1
    IN  [x |-> x1, y |-> y1, w |-> w2, h |-> h2]

(***************************************************************************)
(* Draw size, clamping, scale presets, animation budget                    *)
(***************************************************************************)
draw_size_for_rot(app, r0) ==
    LET g == grid_for_rot(app, r0)
    IN  [dw |-> RoundScaled(g.fw, app.scale), dh |-> RoundScaled(g.fh, app.scale)]

clamp_xy_for_rot(app) ==
    LET d == draw_size_for_rot(app, app.rot)
        x1 == IF app.x < 0 THEN 0 ELSE app.x
        y1 == IF app.y < 0 THEN 0 ELSE app.y
        x2 == IF x1 + 10 * d.dw > 10 * app.screen_w THEN 10 * (app.screen_w - d.dw) ELSE x1
        y2 == IF y1 + 10 * d.dh > 10 * app.screen_h THEN 10 * (app.screen_h - d.dh) ELSE y1
    IN  [app EXCEPT !.x = x2, !.y = y2]

Abs(n) == IF n < 0 THEN -n ELSE n

\* the loop keeps the first index of least distance (d < bestdiff is strict)
RECURSIVE closest_from(_, _, _, _)
closest_from(target, i, best, bestdiff) ==
    IF i > SCALE_COUNT THEN best
    ELSE LET d == Abs(target - SCALE_OPTIONS[i])
         IN  IF bestdiff = -1 \/ d < bestdiff
             THEN closest_from(target, i + 1, i - 1, d)
             ELSE closest_from(target, i + 1, best, bestdiff)

\* bestdiff starts at 1e9f, above every distance: -1 stands for it
find_closest_scale_index(target) == closest_from(target, 1, 0, -1)

\* a budget whose thresholds are exclusive
update_anim_budget_exclusive(app) ==
    LET s == app.scale
        mul == IF s > 7 THEN 3 ELSE IF s > 5 THEN 2 ELSE 1
    IN  [app EXCEPT !.anim_step_ms_eff = app.anim_step_ms_base * mul]

update_anim_budget(app) ==
    LET s == app.scale
        mul == IF s >= 7 THEN 3 ELSE IF s >= 5 THEN 2 ELSE 1
    IN  [app EXCEPT !.anim_step_ms_eff = app.anim_step_ms_base * mul]

(***************************************************************************)
(* Surfaces.  A surface is [w, h, px]: px is the pixel memory, addressed   *)
(* as the C code does, row * pitch + column, with pitch = w pixels; the    *)
(* pixel at address k is px[k + 1].                                        *)
(***************************************************************************)
NULL == "NULL"

\* RGB565 value of the gray colorkey: SDL_MapRGB keeps the top 5/6/5 bits
key565 == (KEY_R \div 8) * 2048 + (KEY_G \div 4) * 32 + (KEY_B \div 8)

\* SDL_CreateSurface: a zero-filled surface
SDL_CreateSurface(w, h) == [w |-> w, h |-> h, px |-> [k \in 1 .. w * h |-> 0]]

\* for (x = 0; x < sw; ++x), in row y of src; dst was created sh x sw, so
\* sw is read off it as dst.h
RECURSIVE rotate_x(_, _, _, _)
rotate_x(src, dst, y, x) ==
    IF x >= dst.h THEN dst
    ELSE LET nx == src.h - 1 - y
             ny == x
         IN  rotate_x(src,
                      [dst EXCEPT !.px[ny * dst.w + nx + 1] = src.px[y * src.w + x + 1]],
                      y, x + 1)

\* for (y = 0; y < sh; ++y); sh is read off dst as dst.w
RECURSIVE rotate_loop(_, _, _)
rotate_loop(src, dst, y) ==
    IF y >= dst.w THEN dst
    ELSE rotate_loop(src, rotate_x(src, dst, y, 0), y + 1)

\* the size SDL_CreateSurface(sh, sw, fmt) is asked for
rotate90_cw_size(src) == [w |-> src.h, h |-> src.w]

\* a quarter turn the other way round: nx = y, ny = sw - 1 - x
RECURSIVE rotate_x_ccw(_, _, _, _)
rotate_x_ccw(src, dst, y, x) ==
    IF x >= dst.h THEN dst
    ELSE LET nx == y
             ny == src.w - 1 - x
         IN  rotate_x_ccw(src,
                          [dst EXCEPT !.px[ny * dst.w + nx + 1] = src.px[y * src.w + x + 1]],
                          y, x + 1)

RECURSIVE rotate_loop_ccw(_, _, _)
rotate_loop_ccw(src, dst, y) ==
    IF y >= dst.w THEN dst
    ELSE rotate_loop_ccw(src, rotate_x_ccw(src, dst, y, 0), y + 1)

rotate90_ccw(src, created) ==
    IF ~created THEN NULL
    ELSE rotate_loop_ccw(src, SDL_CreateSurface(src.h, src.w), 0)

\* created: whether SDL_CreateSurface returned a surface
rotate90_cw(src, created) ==
    IF ~created THEN NULL
    ELSE LET d == rotate90_cw_size(src)
         IN  rotate_loop(src, SDL_CreateSurface(d.w, d.h), 0)

\* sheet_rot[0..3] as a sequence (index r + 1), pixel memory included; the
\* colorkey of a 565 surface is key565, so re-applying it changes no pixel
build_rotations_and_colorkey(sheet_base) ==
    LET r1 == rotate90_cw(sheet_base, TRUE)
        r2 == rotate90_cw(r1, TRUE)
        r3 == rotate90_cw(r2, TRUE)
    IN  <<sheet_base, r1, r2, r3>>

\* the same four surfaces by size alone, for the code that reads only
\* sheet->w and sheet->h
sheet_rot_sizes(tex_w, tex_h) ==
    LET r0 == [w |-> tex_w, h |-> tex_h]
        r1 == rotate90_cw_size(r0)
        r2 == rotate90_cw_size(r1)
        r3 == rotate90_cw_size(r2)
    IN  <<r0, r1, r2, r3>>

\* SDL_MapRGB: RGB565 keeps the top 5/6/5 bits; the other window format
\* followed is XRGB8888
SDL_MapRGB(is565, r, g, b) ==
    IF is565 THEN (r \div 8) * 2048 + (g \div 4) * 32 + (b \div 8)
    ELSE r * 65536 + g * 256 + b

\* the rectangle a NULL SDL_Rect pointer stands for
WholeSurface(s) == [x |-> 0, y |-> 0, w |-> s.w, h |-> s.h]

PointInRect(x, y, rc) ==
    /\ rc.x <= x
    /\ x < rc.x + rc.w
    /\ rc.y <= y
    /\ y < rc.y + rc.h

\* SDL_FillSurfaceRect: the rectangle, clipped to the surface, takes the colour
SDL_FillSurfaceRect(dst, rect, color) ==
    [dst EXCEPT !.px = [k \in 1 .. dst.w * dst.h |->
        IF PointInRect((k - 1) % dst.w, (k - 1) \div dst.w, rect)
        THEN color ELSE dst.px[k]]]

\* SDL_BlitSurface, the pixels of dst after the call: the source rectangle
\* is copied to (dr.x, dr.y) without scaling, clipped to dst, colorkeyed
\* pixels left out; ok is the call's return value, and a failed call has
\* stored nothing
SDL_BlitSurface(src, sr, dst, dr, key, ok) ==
    IF ~ok THEN dst.px
    ELSE [k \in 1 .. dst.w * dst.h |->
            LET x == ((k - 1) % dst.w) - dr.x
                y == ((k - 1) \div dst.w) - dr.y
            IN  IF x \in 0 .. sr.w - 1 /\ y \in 0 .. sr.h - 1
                THEN LET pix == src.px[(sr.y + y) * src.w + sr.x + x + 1]
                     IN  IF pix = key THEN dst.px[k] ELSE pix
                ELSE dst.px[k]]

\* SDL_BlitSurfaceScaled with SDL_SCALEMODE_NEAREST: the source rectangle is
\* stretched over the whole of dr, clipped to dst, each destination pixel
\* taking the source pixel under its centre, colorkeyed pixels left out
SDL_BlitSurfaceScaled(src, sr, dst, dr, key, ok) ==
    IF ~ok THEN dst.px
    ELSE [k \in 1 .. dst.w * dst.h |->
            LET x == ((k - 1) % dst.w) - dr.x
                y == ((k - 1) \div dst.w) - dr.y
            IN  IF x \in 0 .. dr.w - 1 /\ y \in 0 .. dr.h - 1
                THEN LET sx == ((2 * x + 1) * sr.w) \div (2 * dr.w)
                         sy == ((2 * y + 1) * sr.h) \div (2 * dr.h)
                         pix == src.px[(sr.y + sy) * src.w + sr.x + sx + 1]
                     IN  IF pix = key THEN dst.px[k] ELSE pix
                ELSE dst.px[k]]

\* the sheet SDL_LoadBMP and SDL_ConvertSurface hand over, tex_w x tex_h: the
\* gray background, converted to key, where the column is 1 mod 3 in an odd
\* row, and a colour of its own in every other pixel
SheetBmp(tex_w, tex_h, key) ==
    [w |-> tex_w, h |-> tex_h,
     px |-> [k \in 1 .. tex_w * tex_h |->
                IF ((k - 1) % tex_w) % 3 = 1 /\ ((k - 1) \div tex_w) % 2 = 1 THEN key ELSE k]]

(***************************************************************************)
(* blit_colorkey_scale_fast_RGB565.  The destination memory is [px, oob]:  *)
(* px the pixels of the surface, oob whether a store went outside them.    *)
(* What the program does after such a store is undefined, so the loops are *)
(* followed no further once oob is set.                                    *)
(***************************************************************************)
\* drow[i] = pix, at pixel address at of a memory of size pixels
Poke(m, size, at, pix) ==
    IF at \in 0 .. size - 1 THEN [m EXCEPT !.px[at + 1] = pix] ELSE [m EXCEPT !.oob = TRUE]

\* for (i = 0; i < iscale; ++i) drow[dx + i] = pix;   at = drow + dx
RECURSIVE up_i(_, _, _, _, _, _)
up_i(m, size, at, pix, iscale, i) ==
    IF i >= iscale \/ m.oob THEN m
    ELSE up_i(Poke(m, size, at + i, pix), size, at, pix, iscale, i + 1)

\* a column loop that replicates colorkeyed pixels too
RECURSIVE up_sx_no_key(_, _, _, _, _, _, _, _, _, _)
up_sx_no_key(src, sr, m, size, srow, drow, key, iscale, sx, dx) ==
    IF sx >= sr.w \/ m.oob THEN m
    ELSE up_sx_no_key(src, sr, up_i(m, size, drow + dx, src.px[srow + sx + 1], iscale, 0),
                      size, srow, drow, key, iscale, sx + 1, dx + iscale)

\* for (sx = 0; sx < sr->w; ++sx), dx advancing by iscale on both branches;
\* srow and drow are the pixel addresses of the two row starts
RECURSIVE up_sx(_, _, _, _, _, _, _, _, _, _)
up_sx(src, sr, m, size, srow, drow, key, iscale, sx, dx) ==
    IF sx >= sr.w \/ m.oob THEN m
    ELSE LET pix == src.px[srow + sx + 1]
             m1 == IF pix = key THEN m ELSE up_i(m, size, drow + dx, pix, iscale, 0)
         IN  up_sx(src, sr, m1, size, srow, drow, key, iscale, sx + 1, dx + iscale)

\* for (vy = 0; vy < iscale; ++vy)
RECURSIVE up_vy(_, _, _, _, _, _, _, _, _, _)
up_vy(src, sr, dst, dr, m, size, key, iscale, sy, vy) ==
    IF vy >= iscale \/ m.oob THEN m
    ELSE LET srow == (sr.y + sy) * src.w + sr.x
             drow == (dr.y + sy * iscale + vy) * dst.w + dr.x
         IN  up_vy(src, sr, dst, dr,
                   up_sx(src, sr, m, size, srow, drow, key, iscale, 0, 0),
                   size, key, iscale, sy, vy + 1)

\* for (sy = 0; sy < sr->h; ++sy)
RECURSIVE up_sy(_, _, _, _, _, _, _, _, _)
up_sy(src, sr, dst, dr, m, size, key, iscale, sy) ==
    IF sy >= sr.h \/ m.oob THEN m
    ELSE up_sy(src, sr, dst, dr,
               up_vy(src, sr, dst, dr, m, size, key, iscale, sy, 0),
               size, key, iscale, sy + 1)

\* a sampling loop that takes the pixel next to the one it should
RECURSIVE half_sx_off_by_one(_, _, _, _, _, _, _, _, _)
half_sx_off_by_one(src, sr, m, size, srow, drow, key, sx, dx) ==
    IF sx >= sr.w \/ m.oob THEN m
    ELSE LET pix == src.px[srow + (IF sx + 1 < sr.w THEN sx + 1 ELSE sx) + 1]
             m1 == IF pix # key THEN Poke(m, size, drow + dx, pix) ELSE m
         IN  half_sx_off_by_one(src, sr, m1, size, srow, drow, key, sx + 2, dx + 1)

\* for (sx = 0; sx < sr->w; sx += 2)
RECURSIVE half_sx(_, _, _, _, _, _, _, _, _)
half_sx(src, sr, m, size, srow, drow, key, sx, dx) ==
    IF sx >= sr.w \/ m.oob THEN m
    ELSE LET pix == src.px[srow + sx + 1]
             m1 == IF pix # key THEN Poke(m, size, drow + dx, pix) ELSE m
         IN  half_sx(src, sr, m1, size, srow, drow, key, sx + 2, dx + 1)

\* for (sy = 0; sy < sr->h; sy += 2)
RECURSIVE half_sy(_, _, _, _, _, _, _, _)
half_sy(src, sr, dst, dr, m, size, key, sy) ==
    IF sy >= sr.h \/ m.oob THEN m
    ELSE LET srow == (sr.y + sy) * src.w + sr.x
             drow == (dr.y + sy \div 2) * dst.w + dr.x
         IN  half_sy(src, sr, dst, dr,
                     half_sx(src, sr, m, size, srow, drow, key, 0, 0),
                     size, key, sy + 2)

\* [handled, px, oob]; sbpp and dbpp are the bytes per pixel of the two
\* formats.  SDL_LockSurface returns a bool in SDL3, so neither "< 0" test
\* is ever true and no lock failure leaves the function early.
blit_colorkey_scale_fast_RGB565(src, sbpp, sr, dst, dbpp, dr, key, scale) ==
    LET m0 == [px |-> dst.px, oob |-> FALSE]
        size == dst.w * dst.h
        iscale == IF scale = 4 THEN 2 ELSE IF scale = 6 THEN 3 ELSE IF scale = 8 THEN 4 ELSE 0
        half == scale = 1
        m1 == IF ~half
              THEN up_sy(src, sr, dst, dr, m0, size, key, iscale, 0)
              ELSE half_sy(src, sr, dst, dr, m0, size, key, 0)
    IN  IF sbpp # 2 \/ dbpp # 2 THEN [handled |-> FALSE, px |-> dst.px, oob |-> FALSE]
        ELSE IF iscale = 0 /\ ~half THEN [handled |-> FALSE, px |-> dst.px, oob |-> FALSE]
        ELSE [handled |-> TRUE, px |-> m1.px, oob |-> m1.oob]

(***************************************************************************)
(* Session: SDL_AppInit, SDL_AppIterate, SDL_AppEvent                      *)
(***************************************************************************)
SDL_APP_CONTINUE == "SDL_APP_CONTINUE"
SDL_APP_SUCCESS == "SDL_APP_SUCCESS"
\* not a value a callback returns: the process was ended by a store outside
\* the window's pixel memory
Faulted == "Faulted"

ExitCodes == {"ESCAPE", "Q", "AC_BACK", "RETURN", "SPACE"}
\* "A" stands for every scancode app_key does not test for
Scancodes == ExitCodes \cup {"R", "S", "A"}

\* the state SDL_AppInit leaves when every platform call succeeded, for a
\* window surface screen_w x screen_h, of format RGB565 or not, and a sheet
\* tex_w x tex_h; SDL_GetTicks() is counted from this moment.  sheet_rot
\* holds the sizes of the four surfaces it points to; their pixel memory,
\* which nothing writes after SDL_AppInit, is SheetMemory
SDL_AppInit(screen_w, screen_h, is565, tex_w, tex_h) ==
    LET base == 1000 \div SPRITE_FPS
        idx == find_closest_scale_index(DEFAULT_SCALE)
        black == SDL_MapRGB(is565, 0, 0, 0)
        key_conv == SDL_MapRGB(is565, KEY_R, KEY_G, KEY_B)
        a0 == [screen_w |-> screen_w, screen_h |-> screen_h,
               win |-> SDL_FillSurfaceRect(SDL_CreateSurface(screen_w, screen_h),
                                           [x |-> 0, y |-> 0, w |-> screen_w, h |-> screen_h],
                                           black),
               black |-> black, is565 |-> is565,
               key_conv |-> key_conv,
               key565 |-> IF is565 THEN key_conv ELSE 0,
               sheet_rot |-> sheet_rot_sizes(tex_w, tex_h),
               tex_w |-> tex_w, tex_h |-> tex_h,
               cols |-> SPRITE_COLS, rows |-> SPRITE_ROWS,
               frames |-> SPRITE_COLS * SPRITE_ROWS,
               fw |-> TruncDiv(tex_w, SPRITE_COLS), fh |-> TruncDiv(tex_h, SPRITE_ROWS),
               anim_step_ms_base |-> base, anim_step_ms_eff |-> base,
               ms_accum |-> 0, last_ms |-> 0, frame |-> 0, rot |-> 0,
               scale_idx |-> idx, scale |-> SCALE_OPTIONS[idx + 1],
               x |-> 0, y |-> 0, vx |-> 0, vy |-> 0,
               prev_dst |-> [x |-> 0, y |-> 0, w |-> 0, h |-> 0],
               has_prev |-> FALSE]
        a1 == update_anim_budget(a0)
        d == draw_size_for_rot(a1, a1.rot)
    IN  [a1 EXCEPT !.x = (screen_w - d.dw) * 5, !.y = (screen_h - d.dh) * 5,
                   !.vx = START_SPEED_X, !.vy = START_SPEED_Y,
                   !.has_prev = FALSE]

\* SDL_FillSurfaceRect(a->win, NULL, a->black)
clear_window(app) ==
    [app EXCEPT !.win = SDL_FillSurfaceRect(app.win, WholeSurface(app.win), app.black)]

\* an app_key whose CycleScale moves the index and leaves scale behind
app_key_stale_scale(code, app) ==
    IF code \in ExitCodes THEN <<SDL_APP_SUCCESS, app>>
    ELSE IF code = "R" THEN
        LET a1 == clamp_xy_for_rot([app EXCEPT !.rot = (app.rot + 1) % 4, !.has_prev = FALSE])
        IN  <<SDL_APP_CONTINUE, clear_window(a1)>>
    ELSE IF code = "S" THEN
        LET a1 == [app EXCEPT !.scale_idx = (app.scale_idx + 1) % SCALE_COUNT]
            a2 == update_anim_budget(a1)
            a3 == clamp_xy_for_rot([a2 EXCEPT !.has_prev = FALSE])
        IN  <<SDL_APP_CONTINUE, clear_window(a3)>>
    ELSE <<SDL_APP_CONTINUE, app>>

\* an app_key whose CycleScale stops at the last preset
app_key_scale_saturates(code, app) ==
    IF code \in ExitCodes THEN <<SDL_APP_SUCCESS, app>>
    ELSE IF code = "R" THEN
        LET a1 == clamp_xy_for_rot([app EXCEPT !.rot = (app.rot + 1) % 4, !.has_prev = FALSE])
        IN  <<SDL_APP_CONTINUE, clear_window(a1)>>
    ELSE IF code = "S" THEN
        LET i == IF app.scale_idx + 1 < SCALE_COUNT THEN app.scale_idx + 1 ELSE app.scale_idx
            a1 == [app EXCEPT !.scale_idx = i, !.scale = SCALE_OPTIONS[i + 1]]
            a2 == update_anim_budget(a1)
            a3 == clamp_xy_for_rot([a2 EXCEPT !.has_prev = FALSE])
        IN  <<SDL_APP_CONTINUE, clear_window(a3)>>
    ELSE <<SDL_APP_CONTINUE, app>>

\* an app_key whose Rotate leaves the dirty rectangle of the old rotation
app_key_rotate_keeps_prev(code, app) ==
    IF code \in ExitCodes THEN <<SDL_APP_SUCCESS, app>>
    ELSE IF code = "R" THEN
        LET a1 == clamp_xy_for_rot([app EXCEPT !.rot = (app.rot + 1) % 4])
        IN  <<SDL_APP_CONTINUE, clear_window(a1)>>
    ELSE IF code = "S" THEN
        LET i == (app.scale_idx + 1) % SCALE_COUNT
            a1 == [app EXCEPT !.scale_idx = i, !.scale = SCALE_OPTIONS[i + 1]]
            a2 == update_anim_budget(a1)
            a3 == clamp_xy_for_rot([a2 EXCEPT !.has_prev = FALSE])
        IN  <<SDL_APP_CONTINUE, clear_window(a3)>>
    ELSE <<SDL_APP_CONTINUE, app>>

\* an app_key whose exit test leaves SDL_SCANCODE_SPACE out
app_key_space_ignored(code, app) ==
    IF code \in ExitCodes \ {"SPACE"} THEN <<SDL_APP_SUCCESS, app>>
    ELSE IF code = "R" THEN
        LET a1 == clamp_xy_for_rot([app EXCEPT !.rot = (app.rot + 1) % 4, !.has_prev = FALSE])
        IN  <<SDL_APP_CONTINUE, clear_window(a1)>>
    ELSE IF code = "S" THEN
        LET i == (app.scale_idx + 1) % SCALE_COUNT
            a1 == [app EXCEPT !.scale_idx = i, !.scale = SCALE_OPTIONS[i + 1]]
            a2 == update_anim_budget(a1)
            a3 == clamp_xy_for_rot([a2 EXCEPT !.has_prev = FALSE])
        IN  <<SDL_APP_CONTINUE, clear_window(a3)>>
    ELSE <<SDL_APP_CONTINUE, app>>

\* app_key: <<result, state>>
app_key(code, app) ==
    IF code \in ExitCodes THEN <<SDL_APP_SUCCESS, app>>
    ELSE IF code = "R" THEN
        LET a1 == clamp_xy_for_rot([app EXCEPT !.rot = (app.rot + 1) % 4, !.has_prev = FALSE])
        IN  <<SDL_APP_CONTINUE, clear_window(a1)>>
    ELSE IF code = "S" THEN
        LET i == (app.scale_idx + 1) % SCALE_COUNT
            a1 == [app EXCEPT !.scale_idx = i, !.scale = SCALE_OPTIONS[i + 1]]
            a2 == update_anim_budget(a1)
            a3 == clamp_xy_for_rot([a2 EXCEPT !.has_prev = FALSE])
        IN  <<SDL_APP_CONTINUE, clear_window(a3)>>
    ELSE <<SDL_APP_CONTINUE, app>>

\* a catch-up that steps the animation at most once in a tick
anim_loop_single_step(acc, frame, step, frames) ==
    IF acc >= step THEN <<acc - step, (frame + 1) % frames>> ELSE <<acc, frame>>

\* the catch-up loop of SDL_AppIterate: <<ms_accum, frame>>
RECURSIVE anim_loop(_, _, _, _)
anim_loop(acc, frame, step, frames) ==
    IF acc >= step
    THEN anim_loop(acc - step, (frame + 1) % frames, step, frames)
    ELSE <<acc, frame>>

\* move & bounce: the four tests run in this order, each on the x, y the
\* tests before it left
move_and_bounce(app) ==
    LET d == draw_size_for_rot(app, app.rot)
        xm == app.x + app.vx
        ym == app.y + app.vy
        lowx == xm < 0
        x1 == IF lowx THEN 0 ELSE xm
        vx1 == IF lowx THEN -app.vx ELSE app.vx
        highx == x1 + 10 * d.dw > 10 * app.screen_w
        x2 == IF highx THEN 10 * (app.screen_w - d.dw) ELSE x1
        vx2 == IF highx THEN -vx1 ELSE vx1
        lowy == ym < 0
        y1 == IF lowy THEN 0 ELSE ym
        vy1 == IF lowy THEN -app.vy ELSE app.vy
        highy == y1 + 10 * d.dh > 10 * app.screen_h
        y2 == IF highy THEN 10 * (app.screen_h - d.dh) ELSE y1
        vy2 == IF highy THEN -vy1 ELSE vy1
    IN  [app EXCEPT !.x = x2, !.y = y2, !.vx = vx2, !.vy = vy2]

\* the sheets the session is started with, <<tex_w, tex_h>>: frames of 1x1
\* with a remainder column and row, and frames of 2x1 that the grid divides
\* exactly
SessionSheets == {<<9, 5>>, <<16, 4>>}

\* the window formats a session with the sheet is started with, as values
\* of is565: the badge's window is RGB565, and the other format is followed
\* with the small sheet
SessionFormats(sheet) == IF sheet = <<9, 5>> THEN BOOLEAN ELSE {TRUE}

\* the pixel memory of sheet_rot[0..3] for every sheet and window format a
\* session is started with
SheetMemory ==
    {[tex_w |-> sheet[1], tex_h |-> sheet[2], is565 |-> is565,
      rot |-> build_rotations_and_colorkey(
                 SheetBmp(sheet[1], sheet[2], SDL_MapRGB(is565, KEY_R, KEY_G, KEY_B)))] :
        sheet \in SessionSheets, is565 \in BOOLEAN}

\* the surface a->sheet_rot[r0] points to
sheet_surface(app, r0) ==
    (CHOOSE m \in SheetMemory :
        m.tex_w = app.tex_w /\ m.tex_h = app.tex_h /\ m.is565 = app.is565).rot[r0 + 1]

\* the first half of a tick, SDL_GetTicks() returning now: the animation
\* is stepped, the sprite moved and bounced
tick_advance(app, now) ==
    LET delta == now - app.last_ms
        an == anim_loop(app.ms_accum + delta, app.frame,
                        app.anim_step_ms_eff, app.frames)
    IN  move_and_bounce([app EXCEPT !.last_ms = now, !.ms_accum = an[1], !.frame = an[2]])

\* a blit stage that returns as soon as its blit has failed
tick_blit_returns_on_failure(a2, win1, sheet, src, d, sdl_ok) ==
    LET dst0 == [x |-> IntOfTenths(a2.x), y |-> IntOfTenths(a2.y), w |-> d.dw, h |-> d.dh]
        unscaled == a2.scale = 2
        dst == IF unscaled THEN [dst0 EXCEPT !.w = src.w, !.h = src.h] ELSE dst0
        fast == IF ~unscaled /\ a2.is565
                THEN blit_colorkey_scale_fast_RGB565(sheet, 2, src, win1, 2, dst,
                                                     a2.key565, a2.scale)
                ELSE [handled |-> FALSE, px |-> win1.px, oob |-> FALSE]
        px == IF unscaled THEN SDL_BlitSurface(sheet, src, win1, dst, a2.key_conv, sdl_ok)
              ELSE IF fast.handled THEN fast.px
              ELSE SDL_BlitSurfaceScaled(sheet, src, win1, dst, a2.key_conv, sdl_ok)
        blit_ok == IF ~unscaled /\ fast.handled THEN TRUE ELSE sdl_ok
    IN  IF blit_ok
        THEN [a |-> [a2 EXCEPT !.win = [win1 EXCEPT !.px = px],
                               !.prev_dst = dst, !.has_prev = TRUE],
              blit_ok |-> blit_ok,
              oob |-> fast.oob]
        ELSE [a |-> [a2 EXCEPT !.win = win1], blit_ok |-> blit_ok, oob |-> fast.oob]

\* the blit of a tick and what follows it: a2 is the state the move left,
\* win1 the window after the dirty-rectangle clear, sheet and src the
\* surface and the rectangle of the frame, d the draw size.  A failed blit
\* is logged and the tick goes on: prev_dst and has_prev are set all the same
tick_blit(a2, win1, sheet, src, d, sdl_ok) ==
    LET dst0 == [x |-> IntOfTenths(a2.x), y |-> IntOfTenths(a2.y), w |-> d.dw, h |-> d.dh]
        unscaled == a2.scale = 2
        dst == IF unscaled THEN [dst0 EXCEPT !.w = src.w, !.h = src.h] ELSE dst0
        fast == IF ~unscaled /\ a2.is565
                THEN blit_colorkey_scale_fast_RGB565(sheet, 2, src, win1, 2, dst,
                                                     a2.key565, a2.scale)
                ELSE [handled |-> FALSE, px |-> win1.px, oob |-> FALSE]
        px == IF unscaled THEN SDL_BlitSurface(sheet, src, win1, dst, a2.key_conv, sdl_ok)
              ELSE IF fast.handled THEN fast.px
              ELSE SDL_BlitSurfaceScaled(sheet, src, win1, dst, a2.key_conv, sdl_ok)
        blit_ok == IF ~unscaled /\ fast.handled THEN TRUE ELSE sdl_ok
    IN  [a |-> [a2 EXCEPT !.win = [win1 EXCEPT !.px = px], !.prev_dst = dst, !.has_prev = TRUE],
         blit_ok |-> blit_ok,
         oob |-> fast.oob]

\* the second half of a tick, on the state a2 the move left: the dirty
\* rectangle is cleared, the frame located and drawn
tick_draw(a2, sdl_ok) ==
    tick_blit(a2,
              IF a2.has_prev
              THEN SDL_FillSurfaceRect(a2.win, a2.prev_dst, a2.black)
              ELSE a2.win,
              sheet_surface(a2, a2.rot),
              get_src_for_frame_rot(a2, a2.frame, a2.rot),
              draw_size_for_rot(a2, a2.rot),
              sdl_ok)

\* one tick, SDL_GetTicks() returning now and every SDL blit the tick calls
\* returning sdl_ok: [a, blit_ok, oob], the state the tick leaves, its
\* blit_ok, and whether the fast path stored outside the window's pixels
SDL_AppIterate(app, now, sdl_ok) == tick_draw(tick_advance(app, now), sdl_ok)

\* SDL_Delay(DT_SLEEP_MS) ends every tick: the next SDL_GetTicks() is the
\* sleep plus the tick's own work (8 ms here) later
Deltas == {DT_SLEEP_MS + 8}

\* no call made yet
NoLoc == [idx |-> -1, rot |-> -1,
          src |-> [x |-> 0, y |-> 0, w |-> 0, h |-> 0], cell |-> [r |-> 0, c |-> 0]]
NoBlt == [done |-> FALSE]
NoRot == [orig |-> NULL, cur |-> NULL, n |-> 0, failed |-> FALSE]

Init ==
    /\ \E sheet \in SessionSheets :
          \E is565 \in SessionFormats(sheet) :
             a = SDL_AppInit(ScreenW, ScreenH, is565, sheet[1], sheet[2])
    /\ result = SDL_APP_CONTINUE
    /\ loc = NoLoc
    /\ blt = NoBlt
    /\ rotb = NoRot

\* a tick that ran to its end, the SDL blit it called, if any, returning
\* sdl_ok; a store outside the window's pixels, if there was one, did no harm
Tick(delta, sdl_ok) ==
    /\ result = SDL_APP_CONTINUE
    /\ a.last_ms + delta <= MaxMs
    /\ a' = SDL_AppIterate(a, a.last_ms + delta, sdl_ok).a
    /\ result' = SDL_APP_CONTINUE
    /\ UNCHANGED <<loc, blt, rotb>>

Iterate == \E delta \in Deltas, sdl_ok \in BOOLEAN : Tick(delta, sdl_ok)

\* a tick whose fast path stored outside the window's pixels, and the store
\* ended the process
IterateFault ==
    /\ result = SDL_APP_CONTINUE
    /\ \E delta \in Deltas :
          /\ a.last_ms + delta <= MaxMs
          /\ SDL_AppIterate(a, a.last_ms + delta, TRUE).oob
    /\ result' = Faulted
    /\ UNCHANGED <<a, loc, blt, rotb>>

\* SDL_AppEvent with ev->type = SDL_EVENT_KEY_DOWN
KeyDown(code) ==
    /\ result = SDL_APP_CONTINUE
    /\ LET r == app_key(code, a)
       IN  /\ result' = r[1]
           /\ a' = r[2]
    /\ UNCHANGED <<loc, blt, rotb>>

\* SDL_AppEvent with ev->type = SDL_EVENT_QUIT
Quit ==
    /\ result = SDL_APP_CONTINUE
    /\ result' = SDL_APP_SUCCESS
    /\ UNCHANGED <<a, loc, blt, rotb>>

\* SDL_AppEvent with any other event type
OtherEvent ==
    /\ result = SDL_APP_CONTINUE
    /\ result' = SDL_APP_CONTINUE
    /\ UNCHANGED <<a, loc, blt, rotb>>

Next ==
    \/ Iterate
    \/ IterateFault
    \/ \E code \in Scancodes : KeyDown(code)
    \/ Quit
    \/ OtherEvent

Spec == Init /\ [][Next]_vars

(***************************************************************************)
(* Session claims                                                          *)
(***************************************************************************)
\* the view state of the session
view == <<a.rot, a.scale, a.scale_idx>>

\* C1: in every reachable state the draw rectangle (x, y, dw, dh), with
\* (dw, dh) from draw_size_for_rot for the current scale and rotation, lies
\* inside the screen: 0 <= x, 0 <= y, x + dw <= screen_w, y + dh <= screen_h.
C1_DrawRectInsideScreen ==
    LET d == draw_size_for_rot(a, a.rot)
    IN  /\ 0 <= a.x
        /\ 0 <= a.y
        /\ a.x + 10 * d.dw <= 10 * a.screen_w
        /\ a.y + 10 * d.dh <= 10 * a.screen_h

\* C2: in one tick the x velocity is negated exactly once if the moved
\* position crosses the low or the high screen edge and is unchanged
\* otherwise, and the same holds independently for y; from (0,0) with
\* velocity (-1.8, 1.4), y moving freely, the tick ends at x = 0, vx = +1.8,
\* y = 1.4, vy = 1.4.
C2_BounceNegatesOnce ==
    [][Iterate =>
        LET d == draw_size_for_rot(a, a.rot)
            crossx == \/ a.x + a.vx < 0
                      \/ a.x + a.vx + 10 * d.dw > 10 * a.screen_w
            crossy == \/ a.y + a.vy < 0
                      \/ a.y + a.vy + 10 * d.dh > 10 * a.screen_h
        IN  /\ a'.vx = IF crossx THEN -a.vx ELSE a.vx
            /\ a'.vy = IF crossy THEN -a.vy ELSE a.vy
            /\ (a.x = 0 /\ a.y = 0 /\ a.vx = -18 /\ a.vy = 14 /\ ~crossy)
                  => (a'.x = 0 /\ a'.vx = 18 /\ a'.y = 14 /\ a'.vy = 14)]_vars

\* C10: in every reachable state 0 <= scale_idx < SCALE_COUNT,
\* scale = SCALE_OPTIONS[scale_idx] and rot is in 0..3; a tick changes none
\* of rot, scale, scale_idx, and a step that changes one of them is a
\* Rotate or a CycleScale command.
C10_ViewState ==
    /\ [](/\ a.scale_idx \in 0 .. SCALE_COUNT - 1
          /\ a.scale = SCALE_OPTIONS[a.scale_idx + 1]
          /\ a.rot \in 0 .. 3)
    /\ [][view' # view => ~Iterate]_vars
    /\ [][view' # view => KeyDown("R") \/ KeyDown("S")]_vars

\* ticks have run, the rotation has gone to 270 degrees and the scale
\* presets have wrapped round to the first one
C10_Witness ==
    /\ a.last_ms > 0
    /\ a.has_prev
    /\ a.rot = 3
    /\ a.scale_idx = 0

(***************************************************************************)
(* Frame locator harness: get_src_for_frame_rot on every frame index and   *)
(* rotation of a session started with a sheet of any size                  *)
(***************************************************************************)
Locate(idx, r) ==
    /\ loc' = [idx |-> idx, rot |-> r,
               src |-> get_src_for_frame_rot(a, idx, r),
               cell |-> map_cell_for_rot(a, r, TruncDiv(idx, a.cols), idx % a.cols)]
    /\ UNCHANGED <<a, result, blt, rotb>>

NextLocate == \E idx \in 0 .. a.frames - 1, r \in 0 .. 3 : Locate(idx, r)

InitLocate ==
    /\ \E tw \in SPRITE_COLS .. MaxTexW, th \in SPRITE_ROWS .. MaxTexH :
          a = SDL_AppInit(ScreenW, ScreenH, TRUE, tw, th)
    /\ result = SDL_APP_CONTINUE
    /\ loc = NoLoc
    /\ blt = NoBlt
    /\ rotb = NoRot

SpecLocate == InitLocate /\ [][NextLocate]_vars

\* the sheet of the scenario, <<tex_w, tex_h>>
ScenarioSheet == <<800, 400>>

GridSheets ==
    {<<SPRITE_COLS * i, SPRITE_ROWS * j>> : i \in 1 .. MaxFw, j \in 1 .. MaxFh}
        \cup {ScenarioSheet}

InitGrid ==
    /\ \E sheet \in GridSheets :
          a = SDL_AppInit(ScreenW, ScreenH, TRUE, sheet[1], sheet[2])
    /\ result = SDL_APP_CONTINUE
    /\ loc = NoLoc
    /\ blt = NoBlt
    /\ rotb = NoRot

SpecGrid == InitGrid /\ [][NextLocate]_vars

Located == loc.idx >= 0

\* the pixels of a rectangle, as <<column, row>>
PixelsOf(rc) == (rc.x .. rc.x + rc.w - 1) \X (rc.y .. rc.y + rc.h - 1)

HasPixel(rc, px, py) ==
    /\ rc.x <= px
    /\ px < rc.x + rc.w
    /\ rc.y <= py
    /\ py < rc.y + rc.h

InsideSheet(rc, sheet) ==
    /\ rc.x >= 0
    /\ rc.y >= 0
    /\ rc.x + rc.w <= sheet.w
    /\ rc.y + rc.h <= sheet.h

\* C5: for every rotation, frame index and sheet at least as large as the
\* grid, the located rectangle has x >= 0, y >= 0, w > 0, h > 0 and lies
\* inside the buffer of that rotation.
C5_SrcInsideRotatedSheet ==
    Located =>
        /\ loc.src.w > 0
        /\ loc.src.h > 0
        /\ InsideSheet(loc.src, a.sheet_rot[loc.rot + 1])

\* a last-column frame of the 270 degree sheet that takes in a remainder
C5_Witness ==
    /\ Located
    /\ loc.rot = 3
    /\ a.tex_w % a.cols # 0
    /\ a.tex_h % a.rows # 0
    /\ loc.src.w > a.fh

\* C6: at every rotation the rectangles of all frame indices are pairwise
\* disjoint and their union is the whole rotated buffer.
C6_FramesPartitionSheet ==
    Located =>
        LET sheet == a.sheet_rot[loc.rot + 1]
            rect == [i \in 0 .. a.frames - 1 |-> get_src_for_frame_rot(a, i, loc.rot)]
        IN  /\ \A i \in 0 .. a.frames - 1 :
                  i # loc.idx => PixelsOf(rect[i]) \cap PixelsOf(loc.src) = {}
            /\ \A px \in 0 .. sheet.w - 1, py \in 0 .. sheet.h - 1 :
                  \E i \in 0 .. a.frames - 1 : HasPixel(rect[i], px, py)
            /\ \A i \in 0 .. a.frames - 1 : InsideSheet(rect[i], sheet)

\* a sheet with a remainder column and a remainder row, at 90 degrees
C6_Witness ==
    /\ Located
    /\ loc.rot = 1
    /\ a.tex_w % a.cols # 0
    /\ a.tex_h % a.rows # 0
    /\ loc.idx = a.frames - 1

\* C7: on a sheet the grid divides exactly, the rectangle at rotation 0 is
\* ((i mod cols) * fw, (i div cols) * fh, fw, fh); on the 800x400 sheet
\* frame 5 is (500, 0, 100, 100) at rotation 0 and, at rotation 1, another
\* rectangle, inside the 400x800 rotated buffer.
C7_ExactGridRect ==
    LET exact == a.tex_w % a.cols = 0 /\ a.tex_h % a.rows = 0
        scenario == a.tex_w = ScenarioSheet[1] /\ a.tex_h = ScenarioSheet[2] /\ loc.idx = 5
        r500 == [x |-> 500, y |-> 0, w |-> 100, h |-> 100]
    IN  Located =>
          /\ (exact /\ loc.rot = 0) =>
                loc.src = [x |-> (loc.idx % a.cols) * a.fw,
                           y |-> (loc.idx \div a.cols) * a.fh,
                           w |-> a.fw, h |-> a.fh]
          /\ (scenario /\ loc.rot = 0) => loc.src = r500
          /\ (scenario /\ loc.rot = 1) =>
                /\ loc.src # r500
                /\ loc.src.w > 0
                /\ loc.src.h > 0
                /\ InsideSheet(loc.src, [w |-> 400, h |-> 800])

\* frame 5 of the 800x400 sheet located at rotation 1
C7_Witness ==
    /\ Located
    /\ a.tex_w = 800
    /\ a.tex_h = 400
    /\ loc.idx = 5
    /\ loc.rot = 1

\* the grid a quarter turn produces: rows and columns change places
TurnedGrid(app) == [app EXCEPT !.cols = app.rows, !.rows = app.cols]

\* the single quarter-turn mapping, applied to a cell of app's grid
QuarterTurn(app, cell) == map_cell_for_rot(app, 1, cell.r, cell.c)

\* C9: for each rotation map_cell_for_rot is a bijection from the base grid
\* cells onto the cells of the grid grid_for_rot gives, and four quarter
\* turns in sequence return every cell to itself.
C9_CellMapBijection ==
    LET base == (0 .. a.rows - 1) \X (0 .. a.cols - 1)
        g == grid_for_rot(a, loc.rot)
        image == {map_cell_for_rot(a, loc.rot, p[1], p[2]) : p \in base}
        c0 == [r |-> loc.idx \div a.cols, c |-> loc.idx % a.cols]
        c1 == QuarterTurn(a, c0)
        c2 == QuarterTurn(TurnedGrid(a), c1)
        c3 == QuarterTurn(a, c2)
        c4 == QuarterTurn(TurnedGrid(a), c3)
    IN  Located =>
          /\ image = [r : 0 .. g.rows - 1, c : 0 .. g.cols - 1]
          /\ Cardinality(image) = Cardinality(base)
          /\ loc.cell \in image
          /\ c4 = c0

\* a cell off both diagonals, mapped at 90 degrees
C9_Witness ==
    /\ Located
    /\ loc.rot = 1
    /\ loc.idx = 13
    /\ loc.cell = [r |-> 5, c |-> 2]

(***************************************************************************)
(* Rotation harness: a surface taken through rotate90_cw four times, as    *)
(* build_rotations_and_colorkey does three times                           *)
(***************************************************************************)
\* two pixel values tell every misplaced pixel of some surface apart
RotPixels == {0, 1}

RotSurfaces ==
    UNION {{[w |-> w, h |-> h, px |-> f] : f \in [1 .. w * h -> RotPixels]} :
              <<w, h>> \in (1 .. MaxRotW) \X (1 .. MaxRotH)}

InitRot ==
    /\ \E s \in RotSurfaces : rotb = [orig |-> s, cur |-> s, n |-> 0, failed |-> FALSE]
    /\ a = SDL_AppInit(ScreenW, ScreenH, TRUE, SPRITE_COLS, SPRITE_ROWS)
    /\ result = SDL_APP_CONTINUE
    /\ loc = NoLoc
    /\ blt = NoBlt

\* rotate90_cw returned a surface; the fourth turn is the last one followed
RotateOk ==
    /\ ~rotb.failed
    /\ rotb.n < 4
    /\ rotb' = [rotb EXCEPT !.cur = rotate90_cw(rotb.cur, TRUE), !.n = rotb.n + 1]
    /\ UNCHANGED <<a, result, loc, blt>>

\* SDL_CreateSurface failed: rotate90_cw returned NULL and startup is abandoned
RotateFail ==
    /\ ~rotb.failed
    /\ rotb.n < 4
    /\ rotate90_cw(rotb.cur, FALSE) = NULL
    /\ rotb' = [rotb EXCEPT !.failed = TRUE]
    /\ UNCHANGED <<a, result, loc, blt>>

NextRot == RotateOk \/ RotateFail

SpecRot == InitRot /\ [][NextRot]_vars

\* C8: rotate90_cw maps a w x h buffer to an h x w buffer with source pixel
\* (x, y) copied to destination (h-1-y, x), and four turns in sequence give
\* back the original width, height and pixels.
C8_RotateQuarterTurns ==
    /\ [][RotateOk =>
            LET s == rotb.cur
                d == rotb'.cur
            IN  /\ d.w = s.h
                /\ d.h = s.w
                /\ DOMAIN d.px = 1 .. d.w * d.h
                /\ \A x \in 0 .. s.w - 1, y \in 0 .. s.h - 1 :
                      d.px[x * d.w + (s.h - 1 - y) + 1] = s.px[y * s.w + x + 1]]_vars
    /\ [](rotb.n = 4 => rotb.cur = rotb.orig)

\* a 3x2 surface with pixels of both values after its fourth turn
C8_Witness ==
    /\ rotb.n = 4
    /\ rotb.orig.w = 3
    /\ rotb.orig.h = 2
    /\ rotb.orig.px[1] # rotb.orig.px[2]
    /\ rotb.orig.px[1] # rotb.orig.px[4]

(***************************************************************************)
(* Blit harness: one call of blit_colorkey_scale_fast_RGB565 on a source   *)
(* surface, any rectangle of it and any scale preset, into a destination   *)
(* that holds a pixel value no source has                                  *)
(***************************************************************************)
Sentinel == 2 ^ 16 - 1

\* source surfaces: pixel (x, y) is the colorkey where the column bit and
\* the row bit differ, and a colour of its own elsewhere
BlitSources ==
    {[w |-> BlitSrcW, h |-> BlitSrcH,
      px |-> [k \in 1 .. BlitSrcW * BlitSrcH |->
                IF cb[(k - 1) % BlitSrcW] # rb[(k - 1) \div BlitSrcW] THEN key565 ELSE k]] :
        cb \in [0 .. BlitSrcW - 1 -> BOOLEAN], rb \in [0 .. BlitSrcH - 1 -> BOOLEAN]}

BlitRects ==
    {rc \in [x : 0 .. BlitSrcW - 1, y : 0 .. BlitSrcH - 1, w : 1 .. BlitSrcW, h : 1 .. BlitSrcH] :
        rc.x + rc.w <= BlitSrcW /\ rc.y + rc.h <= BlitSrcH}

\* room for the largest scale, and one pixel more on every side
BlitDst ==
    [w |-> 4 * BlitSrcW + 2, h |-> 4 * BlitSrcH + 2,
     px |-> [k \in 1 .. (4 * BlitSrcW + 2) * (4 * BlitSrcH + 2) |-> Sentinel]]

InitBlit ==
    /\ \E s \in BlitSources, rc \in BlitRects, i \in 1 .. SCALE_COUNT :
          blt = [done |-> FALSE, src |-> s, sr |-> rc, scale |-> SCALE_OPTIONS[i],
                 dr |-> [x |-> 1, y |-> 1], dst |-> BlitDst,
                 handled |-> FALSE, oob |-> FALSE]
    /\ a = SDL_AppInit(ScreenW, ScreenH, TRUE, SPRITE_COLS, SPRITE_ROWS)
    /\ result = SDL_APP_CONTINUE
    /\ loc = NoLoc
    /\ rotb = NoRot

Blit ==
    /\ ~blt.done
    /\ LET out == blit_colorkey_scale_fast_RGB565(blt.src, 2, blt.sr, blt.dst, 2,
                                                  blt.dr, key565, blt.scale)
       IN  blt' = [blt EXCEPT !.done = TRUE, !.handled = out.handled,
                              !.oob = out.oob, !.dst.px = out.px]
    /\ UNCHANGED <<a, result, loc, rotb>>

NextBlit == Blit

SpecBlit == InitBlit /\ [][NextBlit]_vars

\* 0.5, 2, 3, 4 in halves
FastScales == {1, 4, 6, 8}

\* the source pixel of the rectangle at (sx, sy) from its origin
SrcAt(sx, sy) == blt.src.px[(blt.sr.y + sy) * blt.src.w + blt.sr.x + sx + 1]

\* the destination pixel at (dx, dy) from the destination origin
DstAt(dx, dy) == blt.dst.px[(blt.dr.y + dy) * blt.dst.w + blt.dr.x + dx + 1]

\* the source pixels, from the rectangle origin, that nearest-neighbour
\* scaling shows at (dx, dy) from the destination origin: none outside the
\* scaled region
SrcOf(dx, dy) ==
    IF dx < 0 \/ dy < 0 THEN {}
    ELSE IF blt.scale = 1
         THEN {p \in {<<2 * dx, 2 * dy>>} : p[1] < blt.sr.w /\ p[2] < blt.sr.h}
         ELSE {p \in {<<(2 * dx) \div blt.scale, (2 * dy) \div blt.scale>>} :
                  p[1] < blt.sr.w /\ p[2] < blt.sr.h}

KeyedInRect ==
    {p \in (0 .. blt.sr.w - 1) \X (0 .. blt.sr.h - 1) : SrcAt(p[1], p[2]) = key565}

\* C3: for every fast-path scale and source rectangle, every destination
\* pixel that corresponds only to colorkeyed source pixels still holds the
\* sentinel after the blit, and no store went outside the destination.
C3_ColorkeyNeverWritten ==
    (blt.done /\ blt.scale \in FastScales) =>
        /\ blt.handled
        /\ ~blt.oob
        /\ \A x \in 0 .. blt.dst.w - 1, y \in 0 .. blt.dst.h - 1 :
              (\A p \in SrcOf(x - blt.dr.x, y - blt.dr.y) : SrcAt(p[1], p[2]) = key565)
                 => blt.dst.px[y * blt.dst.w + x + 1] = Sentinel

\* a 3x3 rectangle with colorkeyed and coloured pixels, scaled by 0.5
C3_Witness ==
    /\ blt.done
    /\ blt.scale = 1
    /\ blt.sr.w = 3
    /\ blt.sr.h = 3
    /\ SrcAt(0, 0) = key565
    /\ SrcAt(2, 0) # key565
    /\ SrcAt(2, 2) = key565

\* C4: for every fast-path scale and a source rectangle with no colorkeyed
\* pixel, every pixel of the scaled destination region equals its
\* nearest-neighbour source pixel: (dx div s, dy div s) for s in 2, 3, 4
\* and (2 dx, 2 dy) for 0.5.
C4_NearestNeighbour ==
    (blt.done /\ blt.scale \in FastScales /\ KeyedInRect = {}) =>
        /\ blt.handled
        /\ IF blt.scale = 1
           THEN \A dx \in 0 .. (blt.sr.w - 1) \div 2, dy \in 0 .. (blt.sr.h - 1) \div 2 :
                   DstAt(dx, dy) = SrcAt(2 * dx, 2 * dy)
           ELSE LET s == blt.scale \div 2
                IN  \A dx \in 0 .. blt.sr.w * s - 1, dy \in 0 .. blt.sr.h * s - 1 :
                       DstAt(dx, dy) = SrcAt(dx \div s, dy \div s)

\* a 3x2 rectangle without colorkey, off the source origin, scaled by 3
C4_Witness ==
    /\ blt.done
    /\ blt.scale = 6
    /\ blt.sr = [x |-> 0, y |-> 1, w |-> 3, h |-> 2]
    /\ KeyedInRect = {}

(***************************************************************************)
(* Session claims: commands, animation budget, exit, failing blits         *)
(***************************************************************************)
\* the presets in the order a CycleScale command goes through them, in halves
PresetOrder == <<1, 2, 3, 4, 5, 6, 7, 8, 10, 12>>

\* the state k CycleScale commands in a row leave
RECURSIVE CycleScaleTimes(_, _)
CycleScaleTimes(app, k) ==
    IF k = 0 THEN app ELSE CycleScaleTimes(app_key("S", app)[2], k - 1)

\* the state k Rotate commands in a row leave
RECURSIVE RotateTimes(_, _)
RotateTimes(app, k) ==
    IF k = 0 THEN app ELSE RotateTimes(app_key("R", app)[2], k - 1)

\* C11: the session starts at scale 2.0; a CycleScale command moves to the
\* next preset of 0.5, 1.0, 1.5, 2.0, 2.5, 3.0, 3.5, 4.0, 5.0, 6.0, wrapping
\* from 6.0 to 0.5, and no tick or Rotate command moves the preset, so k
\* commands move the index by k mod 10: three commands from 2.0 reach 3.5
\* and ten commands return to the scale they started from.
C11_ScaleCycle ==
    /\ a.scale = 4
    /\ a.scale = PresetOrder[a.scale_idx + 1]
    /\ [][a'.scale_idx # a.scale_idx =>
            /\ KeyDown("S")
            /\ a'.scale_idx = (a.scale_idx + 1) % 10
            /\ a'.scale = PresetOrder[a'.scale_idx + 1]]_vars
    /\ [](LET c1 == CycleScaleTimes(a, 1)
              c3 == CycleScaleTimes(c1, 2)
              c10 == CycleScaleTimes(c3, 7)
          IN  /\ c1.scale_idx = (a.scale_idx + 1) % 10
              /\ c1.scale = PresetOrder[c1.scale_idx + 1]
              /\ a.scale = 4 => c3.scale = 7
              /\ c10.scale = a.scale
              /\ c10.scale_idx = a.scale_idx)

\* the presets have wrapped round, past the one the session started at,
\* with a tick and Rotate commands in between
C11_Witness ==
    /\ a.scale_idx = 4
    /\ a.scale = 5
    /\ a.rot = 1
    /\ a.last_ms > 0
    /\ a.x = 0

\* C12: in every reachable state the effective animation step is the
\* nominal step, 1000 / 24 ms, times 1 when scale < 2.5, times 2 when
\* 2.5 <= scale < 3.5 and times 3 when scale >= 3.5.
C12_AnimBudget ==
    /\ a.anim_step_ms_base = 41
    /\ a.anim_step_ms_eff =
          a.anim_step_ms_base * (IF a.scale < 5 THEN 1 ELSE IF a.scale < 7 THEN 2 ELSE 3)

\* a CycleScale command has just moved the scale to 3.5, after a tick
C12_Witness ==
    /\ a.scale = 7
    /\ a.anim_step_ms_eff = 123
    /\ ~a.has_prev
    /\ a.last_ms > 0

\* C13: in every reachable state the frame index is in [0, cols*rows) and
\* ms_accum is strictly less than anim_step_ms_eff.
C13_AccumBelowStep ==
    /\ a.frame \in 0 .. a.cols * a.rows - 1
    /\ a.ms_accum < a.anim_step_ms_eff

\* C14: a Rotate command sets rot to (rot + 1) mod 4 and has_prev to false,
\* leaves scale, scale index, frame, ms_accum, the effective step and both
\* velocity components as they were, and four Rotate commands in a row
\* give back the rotation they started from.
C14_RotateCommand ==
    /\ [][a'.rot # a.rot =>
            /\ KeyDown("R")
            /\ a'.rot = (a.rot + 1) % 4
            /\ a'.has_prev = FALSE
            /\ a'.scale = a.scale
            /\ a'.scale_idx = a.scale_idx
            /\ a'.frame = a.frame
            /\ a'.ms_accum = a.ms_accum
            /\ a'.anim_step_ms_eff = a.anim_step_ms_eff
            /\ a'.vx = a.vx
            /\ a'.vy = a.vy]_vars
    /\ [](/\ RotateTimes(a, 1).rot = (a.rot + 1) % 4
          /\ RotateTimes(a, 1).has_prev = FALSE
          /\ RotateTimes(a, 4).rot = a.rot)

\* three Rotate commands after two ticks, the last one following a tick
C14_Witness ==
    /\ a.rot = 3
    /\ ~a.has_prev
    /\ a.last_ms = 2 * (DT_SLEEP_MS + 8)
    /\ a.ms_accum > 0

\* C15: a quit event and a key-down of any exit key end the run loop with
\* the session state unchanged, one exactly as the other, in whatever state
\* they arrive; a key-down of a key that is neither an exit key nor R nor S
\* continues the loop with the session state unchanged.
C15_ExitAndOtherKeys ==
    /\ [](/\ \A code \in {"ESCAPE", "Q", "AC_BACK", "RETURN", "SPACE"} :
                app_key(code, a) = <<SDL_APP_SUCCESS, a>>
          /\ app_key("A", a) = <<SDL_APP_CONTINUE, a>>)
    /\ [][result' = SDL_APP_SUCCESS =>
            /\ a' = a
            /\ Quit
            /\ \A code \in {"ESCAPE", "Q", "AC_BACK", "RETURN", "SPACE"} : KeyDown(code)]_vars
    /\ [][KeyDown("A") => result' = SDL_APP_CONTINUE /\ a' = a]_vars

\* the run loop has ended in a rotated, rescaled state with a dirty rectangle
C15_Witness ==
    /\ result = SDL_APP_SUCCESS
    /\ a.rot = 2
    /\ a.scale = 3
    /\ a.has_prev

\* C16: a tick whose SDL blit fails still returns 'continue', records the
\* destination rectangle as the dirty rectangle, and leaves the session in
\* the state the same tick with a successful blit leaves, the pixels that
\* were not drawn apart.
C16_FailedBlitNotFatal ==
    [][\A delta \in Deltas :
          (a'.last_ms = a.last_ms + delta /\ Tick(delta, FALSE)) =>
              LET good == SDL_AppIterate(a, a.last_ms + delta, TRUE).a
                  d == draw_size_for_rot(a', a'.rot)
              IN  /\ result' = SDL_APP_CONTINUE
                  /\ a'.has_prev
                  /\ a'.prev_dst.x = IntOfTenths(a'.x)
                  /\ a'.prev_dst.y = IntOfTenths(a'.y)
                  /\ a'.scale # 2 => a'.prev_dst.w = d.dw /\ a'.prev_dst.h = d.dh
                  /\ a'.last_ms = a.last_ms + delta
                  /\ a'.ms_accum = good.ms_accum
                  /\ a'.frame = good.frame
                  /\ a'.x = good.x
                  /\ a'.y = good.y
                  /\ a'.vx = good.vx
                  /\ a'.vy = good.vy
                  /\ [a' EXCEPT !.win = good.win] = good]_vars

\* the second tick's blit failed at scale 5.0, which has no fast path: the
\* window shows nothing and the dirty rectangle is recorded
C16_Witness ==
    /\ a.scale = 10
    /\ a.last_ms = 2 * (DT_SLEEP_MS + 8)
    /\ a.has_prev
    /\ \A k \in 1 .. a.win.w * a.win.h : a.win.px[k] = a.black
    /\ SDL_AppIterate([a EXCEPT !.has_prev = FALSE], a.last_ms, TRUE).a.win # a.win

(***************************************************************************)
(* Animation harness: the first tick after a command, in a session that    *)
(* some CycleScale commands and ticks have brought to any preset, frame    *)
(* and accumulated time, SDL_GetTicks() having advanced by any delta       *)
(***************************************************************************)
\* ms_accum as ticks and commands leave it: 48 is what two ticks of 24 ms
\* leave at a step of 82 ms, whatever the step is changed to afterwards
AnimAccums == {0, 1, 40, 48}

AnimFrames == {0, 17, 31}

\* whole nominal steps and a part of a step
AnimDeltas ==
    {q * (1000 \div SPRITE_FPS) + r : q \in 0 .. MaxSteps, r \in {0, 1, 40}}

InitAnim ==
    /\ \E sheet \in SessionSheets, i \in 0 .. SCALE_COUNT - 1,
          acc \in AnimAccums, f \in AnimFrames :
          a = [CycleScaleTimes(SDL_AppInit(ScreenW, ScreenH, TRUE, sheet[1], sheet[2]), i)
                  EXCEPT !.ms_accum = acc, !.frame = f]
    /\ result = SDL_APP_CONTINUE
    /\ loc = NoLoc
    /\ blt = NoBlt
    /\ rotb = NoRot

AnimTick(delta) ==
    /\ result = SDL_APP_CONTINUE
    /\ ~a.has_prev
    /\ delta \in AnimDeltas
    /\ a' = SDL_AppIterate(a, a.last_ms + delta, TRUE).a
    /\ result' = SDL_APP_CONTINUE
    /\ UNCHANGED <<loc, blt, rotb>>

NextAnim == \E delta \in AnimDeltas : AnimTick(delta)

SpecAnim == InitAnim /\ [][NextAnim]_vars

\* C17: a tick with elapsed time d, from accumulated time acc, frame f and
\* effective step e > 0, ends with ms_accum = (acc + d) mod e and
\* frame = (f + (acc + d) div e) mod (cols * rows).
C17_CatchUpLoop ==
    [][AnimTick(a'.last_ms - a.last_ms) =>
          LET d == a'.last_ms - a.last_ms
              acc == a.ms_accum
              e == a.anim_step_ms_eff
          IN  /\ e > 0
              /\ a'.anim_step_ms_eff = e
              /\ a'.ms_accum = (acc + d) % e
              /\ a'.frame = (a.frame + (acc + d) \div e) % (a.cols * a.rows)
              /\ a'.ms_accum + e * ((acc + d) \div e) = acc + d]_vars

\* 34 steps of 41 ms caught up in one tick: from frame 31 round to frame 1,
\* with nothing left over
C17_Witness ==
    /\ a.has_prev
    /\ a.anim_step_ms_eff = 41
    /\ a.last_ms = 33 * 41 + 40
    /\ a.ms_accum = 0
    /\ a.frame = 1

(***************************************************************************)
(* Session claims: what a tick draws                                       *)
(***************************************************************************)
\* pixel address k - 1 of the window lies in the rectangle
WindowPixelIn(k, rc) == PointInRect((k - 1) % a.win.w, (k - 1) \div a.win.w, rc)

\* C18: at every fast-path scale no store of the blit goes outside the
\* window's pixel memory, and every window pixel a tick's blit writes lies
\* inside the destination rectangle (x, y, dw, dh) of that tick.
C18_FastBlitInsideDst ==
    /\ [](result # Faulted)
    /\ [][(a.is565 /\ a.scale \in FastScales /\ a'.last_ms # a.last_ms /\ Iterate) =>
            LET cleared == IF a.has_prev
                           THEN SDL_FillSurfaceRect(a.win, a.prev_dst, a.black)
                           ELSE a.win
                d == draw_size_for_rot(a', a'.rot)
                dst == [x |-> IntOfTenths(a'.x), y |-> IntOfTenths(a'.y),
                        w |-> d.dw, h |-> d.dh]
            IN  \A k \in 1 .. a.win.w * a.win.h :
                   a'.win.px[k] # cleared.px[k] => WindowPixelIn(k, dst)]_vars

\* C19: in every reachable state every window pixel that is not the
\* background colour lies inside the recorded dirty rectangle, and the
\* whole window is background when has_prev is false.
C19_NoStalePixels ==
    \A k \in 1 .. a.win.w * a.win.h :
        a.win.px[k] # a.black => a.has_prev /\ WindowPixelIn(k, a.prev_dst)

(***************************************************************************)
(* Frame content under rotation, on the sheets of the frame locator        *)
(* harness                                                                 *)
(***************************************************************************)
\* a sheet in which every pixel has a value of its own
MarkedSheet(tex_w, tex_h) ==
    [w |-> tex_w, h |-> tex_h, px |-> [k \in 1 .. tex_w * tex_h |-> k]]

\* the pixels of surface s that rectangle rc covers, as a surface
Crop(s, rc) ==
    [w |-> rc.w, h |-> rc.h,
     px |-> [k \in 1 .. rc.w * rc.h |->
                s.px[(rc.y + (k - 1) \div rc.w) * s.w + rc.x + ((k - 1) % rc.w) + 1]]]

\* r applications of rotate90_cw
RECURSIVE TurnTimes(_, _)
TurnTimes(s, r) == IF r = 0 THEN s ELSE TurnTimes(rotate90_cw(s, TRUE), r - 1)

\* C20: for every frame index, rotation and sheet size, the rectangle of
\* the frame in the rotated buffer build_rotations_and_colorkey built holds
\* exactly the pixels of the frame's base rectangle, turned as often.
C20_SameFrameAtEveryRotation ==
    Located =>
        LET sheets == build_rotations_and_colorkey(MarkedSheet(a.tex_w, a.tex_h))
            base == Crop(sheets[1], get_src_for_frame_rot(a, loc.idx, 0))
            turned == TurnTimes(base, loc.rot)
            shown == Crop(sheets[loc.rot + 1], loc.src)
        IN  /\ shown.w = turned.w
            /\ shown.h = turned.h
            /\ \A k \in 1 .. shown.w * shown.h : shown.px[k] = turned.px[k]

====
